---------------------------- MODULE Spec2Model ----------------------------
(***************************************************************************)
(* A model of lakca/helper: the array deduplicator `dedup` and the object  *)
(* helpers assignWithin, assignWithout, convert, deundefined and deempty.   *)
(*                                                                         *)
(* JavaScript values are records [t |-> <type tag>, n |-> <payload>], so   *)
(* that the number 1 and the string '1' are different values that can      *)
(* still be compared.  Arrays are functions on 0..length-1 whose slots     *)
(* hold a value or Hole (an index with no own property).                   *)
(***************************************************************************)
EXTENDS Integers, Sequences, FiniteSets, TLC

\* ------------------------------------------------------------------ bounds
MaxLen == 5      \* longest input array of dedup
MaxCalls == 2    \* dedup calls made in succession on one array
MaxRange == 2    \* longest range (instruction or exclusion list) of a call

\* ------------------------------------------------------------------ values
Num(k) == [t |-> "number", n |-> k]
Str(k) == [t |-> "string", n |-> k]      \* Str(1) is the string '1'
NaN == [t |-> "NaN", n |-> 0]
Undefined == [t |-> "undefined", n |-> 0]
Null == [t |-> "null", n |-> 0]
Hole == [t |-> "hole", n |-> 0]          \* not a value: the index is absent

\* a === b
StrictEquals(a, b) == a = b /\ a # NaN

\* the equality of Set: as ===, except that NaN equals NaN
SameValueZero(a, b) == a = b

\* ------------------------------------------------------------------ arrays
Length(a) == Cardinality(DOMAIN a)

EmptyArray == [i \in {} |-> Hole]

\* i in arr
HasIndex(a, i) == i \in DOMAIN a /\ a[i] # Hole

\* arr[i] as an expression: a hole or an index past the end reads undefined
Get(a, i) == IF HasIndex(a, i) THEN a[i] ELSE Undefined

\* arr[i] = v, for an index below arr.length
Put(a, i, v) == [a EXCEPT ![i] = v]

\* delete arr[i]: the length stays; past the end nothing happens
Delete(a, i) == IF i \in DOMAIN a THEN [a EXCEPT ![i] = Hole] ELSE a

\* arr.length = k
SetLength(a, k) == [i \in 0..(k - 1) |-> IF i \in DOMAIN a THEN a[i] ELSE Hole]

\* arr.push(v)
Push(a, v) == [i \in 0..Length(a) |-> IF i < Length(a) THEN a[i] ELSE v]

\* ------------------------------------------------------------------- dedup
\* new Set(arr): the array iterator yields undefined at a hole; a value is
\* added unless the set already holds one that is SameValueZero to it.
RECURSIVE SetFrom(_, _, _)
SetFrom(a, i, s) ==
  IF i >= Length(a) THEN s
  ELSE LET v == Get(a, i)
       IN SetFrom(a, i + 1,
                  IF \E k \in DOMAIN s : SameValueZero(s[k], v) THEN s ELSE Push(s, v))

\* a variant of CopyDedup that misses the Set: Array.from(arr)
CopyDedup_NoSet(a) == [i \in DOMAIN a |-> Get(a, i)]

\* Array.from(new Set(arr))
CopyDedup(a) == SetFrom(a, 0, EmptyArray)

\* a variant of ScanInner whose loop stops one index early (n > m + 1), so
\* that a duplicate right after m is missed
RECURSIVE ScanInner_SkipsNeighbour(_, _, _, _, _)
ScanInner_SkipsNeighbour(a, dd, m, v, n) ==
  IF n > m + 1
  THEN IF HasIndex(a, n) /\ StrictEquals(a[n], v)
       THEN ScanInner_SkipsNeighbour(Delete(a, n), dd + 1, m, v, n - 1)
       ELSE ScanInner_SkipsNeighbour(a, dd, m, v, n - 1)
  ELSE [arr |-> a, d |-> dd]

\* while (n > m) { if (n in arr && arr[n] === v) { delete arr[n]; d++ } n-- }
RECURSIVE ScanInner(_, _, _, _, _)
ScanInner(a, dd, m, v, n) ==
  IF n > m
  THEN IF HasIndex(a, n) /\ StrictEquals(a[n], v)
       THEN ScanInner(Delete(a, n), dd + 1, m, v, n - 1)
       ELSE ScanInner(a, dd, m, v, n - 1)
  ELSE [arr |-> a, d |-> dd]

\* do { if (m in arr) { ... } } while (++m < arr.length)
RECURSIVE ScanOuter(_, _, _)
ScanOuter(a, dd, m) ==
  LET r == IF HasIndex(a, m)
           THEN ScanInner(a, dd, m, a[m], Length(a) - 1)
           ELSE [arr |-> a, d |-> dd]
  IN IF m + 1 < Length(r.arr) THEN ScanOuter(r.arr, r.d, m + 1) ELSE r

\* for (i = 0; i <= arr.length - 1; i++)
\*   if (!(i in arr)) { arr[i] = arr[i + 1]; delete arr[i + 1] }
RECURSIVE CompactFrom(_, _)
CompactFrom(a, i) ==
  IF i <= Length(a) - 1
  THEN IF ~HasIndex(a, i)
       THEN CompactFrom(Delete(Put(a, i, Get(a, i + 1)), i + 1), i + 1)
       ELSE CompactFrom(a, i + 1)
  ELSE a

Compact(a) == CompactFrom(a, 0)

\* arr.length = arr.length - d
Truncate(a, dd) == SetLength(a, Length(a) - dd)

\* ----------------------------------------------------------------- objects
\* An object is the sequence of its own properties in insertion order, each
\* [key, value, enumerable]; every property is a writable data property.
\* Property keys are strings; a key in SymbolKeys stands for a symbol.
SymbolKeys == {"@@s"}

IsSymbol(k) == k \in SymbolKeys

\* A key component of an instruction is a property key, null or undefined.
KNull == "<null>"
KUndefined == "<undefined>"

\* the property key a key component names: String(undefined) is 'undefined'
ToPropertyKey(k) ==
  IF k = KUndefined THEN "undefined" ELSE IF k = KNull THEN "null" ELSE k

Ref(i) == [t |-> "object", n |-> i]      \* a reference to the object heap[i]
Fn(i) == [t |-> "function", n |-> i]

IsNullish(v) == v = Null \/ v = Undefined          \* v == null

Inc == Fn(1)    \* v => v + 1
Neg == Fn(2)    \* v => -v

\* converter(v), for the values the model stores in objects (numbers,
\* undefined, NaN): undefined + 1 and -undefined are NaN
Apply(f, v) ==
  IF v.t # "number" THEN NaN
  ELSE IF f = Inc THEN Num(v.n + 1) ELSE Num(0 - v.n)

EntryKeys(o) == [i \in 1..Len(o) |-> o[i].key]

\* Object.prototype.hasOwnProperty.call(obj, k)
HasOwn(o, k) == \E i \in 1..Len(o) : o[i].key = k

Entry(o, k) == o[CHOOSE i \in 1..Len(o) : o[i].key = k]

\* Object.getOwnPropertyDescriptor(obj, k).enumerable, undefined being falsy
IsEnumerable(o, k) == HasOwn(o, k) /\ Entry(o, k).enumerable

\* obj[k]
OwnGet(o, k) == IF HasOwn(o, k) THEN Entry(o, k).value ELSE Undefined

\* obj[k] = v: an own property keeps its place and attributes, a new one is
\* appended, enumerable
OwnSet(o, k, v) ==
  IF HasOwn(o, k)
  THEN [i \in 1..Len(o) |-> IF o[i].key = k THEN [o[i] EXCEPT !.value = v] ELSE o[i]]
  ELSE Append(o, [key |-> k, value |-> v, enumerable |-> TRUE])

IsStringKey(e) == ~IsSymbol(e)

\* a variant of ownKeys that lists the enumerable string keys only:
\* Object.keys(obj)
ownKeys_ObjectKeys(o) ==
  LET Listed(k) == ~IsSymbol(k) /\ IsEnumerable(o, k)
  IN SelectSeq(EntryKeys(o), Listed)

\* Object.getOwnPropertyNames(obj).concat(Object.getOwnPropertySymbols(obj))
ownKeys(o) ==
  SelectSeq(EntryKeys(o), IsStringKey) \o SelectSeq(EntryKeys(o), IsSymbol)

\* An element of a range: a bare key, or an array of up to three components
\* (two key components, then the converter).
Bare(k) == [isArray |-> FALSE, v |-> <<k>>]
Tuple(t) == [isArray |-> TRUE, v |-> t]

\* a range / items argument: an array of elements, or something else
ArrayOf(xs) == [kind |-> "array", items |-> xs]
NotArray(what) == [kind |-> what, items |-> <<>>]

\* the string 'ab': no array, but iterable, yielding 'a' and 'b'
StringArg == [kind |-> "string", items |-> <<Bare("a"), Bare("b")>>]

\* Array.isArray(range)
IsArray(r) == r.kind = "array"

\* whether for (... of items) can iterate items: arrays and strings are
\* iterable; undefined, a number and a plain object are not
IsIterable(r) == r.kind \in {"array", "string"}

\* whether a key component is truthy: the empty string, null and undefined are
\* not
Truthy(k) == k \notin {"", KNull, KUndefined}

\* t[i] of a destructured array: undefined past its end
KeyAt(t, i) == IF i <= Len(t) THEN t[i] ELSE KUndefined
ValueAt(t, i) == IF i <= Len(t) THEN t[i] ELSE Undefined

\* const [srcKey, tarKey, converter] = Array.isArray(key) ? key : [key, key]
Destructure(key) ==
  LET t == IF key.isArray THEN key.v ELSE <<key.v[1], key.v[1]>>
  IN [srcKey |-> KeyAt(t, 1), tarKey |-> KeyAt(t, 2), converter |-> ValueAt(t, 3)]

\* a variant of AssignWithinStep that tests the source key with hasOwnProperty
\* only, copying non-enumerable properties too
AssignWithinStep_AnyOwn(st, tar, src, key) ==
  LET p == Destructure(key)
      sk == ToPropertyKey(p.srcKey)
      o == st.heap[src.n]
  IN IF HasOwn(o, sk) /\ p.tarKey # KNull /\ p.tarKey # KUndefined
     THEN LET v == OwnGet(o, sk)
              w == IF p.converter.t = "function" THEN Apply(p.converter, v) ELSE v
          IN [heap |-> [st.heap EXCEPT ![tar.n] = OwnSet(@, ToPropertyKey(p.tarKey), w)],
              reads |-> st.reads + 2]
     ELSE [st EXCEPT !.reads = @ + 1]

\* the body of assignWithin's loop for range[i]; st is [heap, reads], reads
\* counting the accesses to the source made so far
AssignWithinStep(st, tar, src, key) ==
  LET p == Destructure(key)
      sk == ToPropertyKey(p.srcKey)
      o == st.heap[src.n]
  IN IF IsEnumerable(o, sk) /\ p.tarKey # KNull /\ p.tarKey # KUndefined
     THEN LET v == OwnGet(o, sk)
              w == IF p.converter.t = "function" THEN Apply(p.converter, v) ELSE v
          IN [heap |-> [st.heap EXCEPT ![tar.n] = OwnSet(@, ToPropertyKey(p.tarKey), w)],
              reads |-> st.reads + 2]
     ELSE [st EXCEPT !.reads = @ + 1]

\* a variant of AssignWithinLoop in which every instruction reads the source
\* as it was when the loop began
AssignWithinLoop_Snapshot(st, tar, src, items, i) ==
  LET snap == st.heap[src.n]
      F[j \in (i - 1)..Len(items)] ==
        IF j = i - 1 THEN st
        ELSE LET p == Destructure(items[j])
                 sk == ToPropertyKey(p.srcKey)
                 v == OwnGet(snap, sk)
                 w == IF p.converter.t = "function" THEN Apply(p.converter, v) ELSE v
             IN IF IsEnumerable(snap, sk) /\ p.tarKey # KNull /\ p.tarKey # KUndefined
                THEN [heap |-> [F[j - 1].heap EXCEPT
                                  ![tar.n] = OwnSet(@, ToPropertyKey(p.tarKey), w)],
                      reads |-> F[j - 1].reads + 2]
                ELSE [F[j - 1] EXCEPT !.reads = @ + 1]
  IN F[Len(items)]

\* for (const key of range) { ... }
RECURSIVE AssignWithinLoop(_, _, _, _, _)
AssignWithinLoop(st, tar, src, items, i) ==
  IF i > Len(items) THEN st
  ELSE AssignWithinLoop(AssignWithinStep(st, tar, src, items[i]), tar, src, items, i + 1)

\* a variant of NotInRange that looks at the first excluded key only
NotInRange_FirstOnly(items, k) == Len(items) = 0 \/ items[1] # k

\* range.indexOf(key) < 0
NotInRange(items, k) == \A i \in 1..Len(items) : items[i] # k

\* the body of assignWithout's loop for one own key of the source
AssignWithoutStep(st, tar, src, items, k) ==
  IF IsEnumerable(st.heap[src.n], k) /\ NotInRange(items, k)
  THEN [heap |-> [st.heap EXCEPT ![tar.n] = OwnSet(@, k, OwnGet(st.heap[src.n], k))],
        reads |-> st.reads + 2]
  ELSE [st EXCEPT !.reads = @ + 1]

\* for (const key of ownKeys(srcObj)) { ... }, keys being ownKeys(srcObj) as
\* it was when the loop began
RECURSIVE AssignWithoutLoop(_, _, _, _, _, _)
AssignWithoutLoop(st, tar, src, items, keys, i) ==
  IF i > Len(keys) THEN st
  ELSE AssignWithoutLoop(AssignWithoutStep(st, tar, src, items, keys[i]),
                         tar, src, items, keys, i + 1)

\* what a call does: [heap, reads, thrown, result]
Thrown(h, err) == [heap |-> h, reads |-> 0, thrown |-> err, result |-> Undefined]
Returned(st, v) == [heap |-> st.heap, reads |-> st.reads, thrown |-> "none", result |-> v]

\* a variant of assignWithin that tests the source and the range before the
\* target, so that a null target passes when there is nothing to copy
assignWithin_LateGuard(h, tarObj, srcObj, range) ==
  IF IsNullish(srcObj) \/ ~IsArray(range) THEN Returned([heap |-> h, reads |-> 0], tarObj)
  ELSE IF IsNullish(tarObj) THEN Thrown(h, "TypeError")
  ELSE Returned(AssignWithinLoop([heap |-> h, reads |-> 0], tarObj, srcObj, range.items, 1),
                tarObj)

\* assignWithin(tarObj, srcObj, range)
assignWithin(h, tarObj, srcObj, range) ==
  IF IsNullish(tarObj) THEN Thrown(h, "TypeError")
  ELSE IF ~IsNullish(srcObj) /\ IsArray(range)
  THEN Returned(AssignWithinLoop([heap |-> h, reads |-> 0], tarObj, srcObj, range.items, 1),
                tarObj)
  ELSE Returned([heap |-> h, reads |-> 0], tarObj)

\* a variant of assignWithout without the guard of the loop: ownKeys(null)
\* and range.indexOf of a non-array throw
assignWithout_NoGuard(h, tarObj, srcObj, range) ==
  IF IsNullish(tarObj) THEN Thrown(h, "TypeError")
  ELSE IF IsNullish(srcObj) \/ ~IsArray(range) THEN Thrown(h, "TypeError")
  ELSE Returned(AssignWithoutLoop([heap |-> h, reads |-> 0], tarObj, srcObj, range.items,
                                  ownKeys(h[srcObj.n]), 1),
                tarObj)

\* assignWithout(tarObj, srcObj, range)
assignWithout(h, tarObj, srcObj, range) ==
  IF IsNullish(tarObj) THEN Thrown(h, "TypeError")
  ELSE IF ~IsNullish(srcObj) /\ IsArray(range)
  THEN Returned(AssignWithoutLoop([heap |-> h, reads |-> 0], tarObj, srcObj, range.items,
                                  ownKeys(h[srcObj.n]), 1),
                tarObj)
  ELSE Returned([heap |-> h, reads |-> 0], tarObj)

\* a variant of ConvertStep that converts enumerable own keys only
ConvertStep_EnumerableOnly(h, obj, item) ==
  LET k == ToPropertyKey(KeyAt(item.v, 1))
  IN IF item.isArray /\ Truthy(KeyAt(item.v, 1)) /\ IsEnumerable(h[obj.n], k)
     THEN LET converter == ValueAt(item.v, 2)
          IN IF converter.t = "function"
             THEN [h EXCEPT ![obj.n] = OwnSet(@, k, Apply(converter, OwnGet(@, k)))]
             ELSE [h EXCEPT ![obj.n] = OwnSet(@, k, converter)]
     ELSE h

\* the body of convert's loop for one item
ConvertStep(h, obj, item) ==
  LET k == ToPropertyKey(KeyAt(item.v, 1))
  IN IF item.isArray /\ Truthy(KeyAt(item.v, 1)) /\ HasOwn(h[obj.n], k)
     THEN LET converter == ValueAt(item.v, 2)
          IN IF converter.t = "function"
             THEN [h EXCEPT ![obj.n] = OwnSet(@, k, Apply(converter, OwnGet(@, k)))]
             ELSE [h EXCEPT ![obj.n] = OwnSet(@, k, converter)]
     ELSE h

\* for (const item of items) { ... }
RECURSIVE ConvertLoop(_, _, _, _)
ConvertLoop(h, obj, items, i) ==
  IF i > Len(items) THEN h
  ELSE ConvertLoop(ConvertStep(h, obj, items[i]), obj, items, i + 1)

\* convert(obj, items): for ... of throws a TypeError when items is not
\* iterable
convert(h, obj, items) ==
  IF ~IsIterable(items) THEN Thrown(h, "TypeError")
  ELSE Returned([heap |-> ConvertLoop(h, obj, items.items, 1), reads |-> 0], obj)

\* toString.call(obj) === '[object Object]': a plain object, no array, null
\* or primitive
isJSON(v) == v.t = "object"

\* delete obj[k], for a configurable property
OwnDelete(o, k) ==
  LET Kept(e) == e.key # k
  IN SelectSeq(o, Kept)

\* the body of deundefined's loop for one key
DeundefinedStep(h, obj, k) ==
  IF StrictEquals(OwnGet(h[obj.n], k), Undefined)
  THEN [h EXCEPT ![obj.n] = OwnDelete(@, k)]
  ELSE h

\* for (const key of ownKeys(obj)) { ... }, keys being ownKeys(obj) as it was
\* when the loop began
RECURSIVE DeundefinedLoop(_, _, _, _)
DeundefinedLoop(h, obj, keys, i) ==
  IF i > Len(keys) THEN h
  ELSE DeundefinedLoop(DeundefinedStep(h, obj, keys[i]), obj, keys, i + 1)

\* deundefined(obj)
deundefined(h, obj) ==
  Returned([heap |-> DeundefinedLoop(h, obj, ownKeys(h[obj.n]), 1), reads |-> 0], obj)

\* a variant of DeemptyStep that counts the enumerable string keys of the
\* value only: Object.keys(obj[key]).length
DeemptyStep_ObjectKeys(h, obj, k) ==
  LET v == OwnGet(h[obj.n], k)
  IN IF isJSON(v) /\ Len(ownKeys_ObjectKeys(h[v.n])) = 0
     THEN [h EXCEPT ![obj.n] = OwnDelete(@, k)]
     ELSE h

\* the body of deempty's loop for one key
DeemptyStep(h, obj, k) ==
  LET v == OwnGet(h[obj.n], k)
  IN IF isJSON(v) /\ Len(ownKeys(h[v.n])) = 0
     THEN [h EXCEPT ![obj.n] = OwnDelete(@, k)]
     ELSE h

\* for (const key of ownKeys(obj)) { ... }
RECURSIVE DeemptyLoop(_, _, _, _)
DeemptyLoop(h, obj, keys, i) ==
  IF i > Len(keys) THEN h
  ELSE DeemptyLoop(DeemptyStep(h, obj, keys[i]), obj, keys, i + 1)

\* deempty(obj)
deempty(h, obj) ==
  Returned([heap |-> DeemptyLoop(h, obj, ownKeys(h[obj.n]), 1), reads |-> 0], obj)

\* ------------------------------------------------------------------- state
VARIABLES
  arr,            \* the array passed to dedup
  isDedupOrigin,  \* the flag of the call in progress
  pc,             \* dedup's position: idle, scanned, compacted, done
  d,              \* dedup's deletion counter
  ret,            \* what the last call returned
  arg0,           \* the argument as it was when the call in progress began
  calls,          \* the completed calls: [flag, input, output]
  heap,           \* the objects, by reference
  call            \* the object helper called, its arguments and its outcome

dedupVars == <<arr, isDedupOrigin, pc, d, ret, arg0, calls>>

objVars == <<heap, call>>

vars == <<arr, isDedupOrigin, pc, d, ret, arg0, calls, heap, call>>

\* ------------------------------------------------------------ dedup: steps
DedupValues == {Num(1), Num(2), Str(1), NaN, Undefined}

Slots == DedupValues \cup {Hole}

Arrays == UNION {[0..(k - 1) -> Slots] : k \in 0..MaxLen}

NoCall ==
  [op |-> "none", tarObj |-> Undefined, srcObj |-> Undefined,
   range |-> NotArray("undefined"), pre |-> <<>>, reads |-> 0,
   thrown |-> "none", result |-> Undefined]

DedupIdle ==
  /\ isDedupOrigin = FALSE
  /\ pc = "idle"
  /\ d = 0
  /\ ret = Undefined
  /\ arg0 = arr
  /\ calls = <<>>

Init ==
  /\ arr \in Arrays
  /\ DedupIdle
  /\ heap = <<>>
  /\ call = NoCall

\* dedup(arr) / dedup(arr, false): return Array.from(new Set(arr))
DedupCopy ==
  /\ pc = "idle"
  /\ isDedupOrigin' = FALSE
  /\ ret' = CopyDedup(arr)
  /\ pc' = "done"
  /\ calls' = Append(calls, [flag |-> FALSE, input |-> arg0, output |-> ret'])
  /\ UNCHANGED <<arr, d, arg0, heap, call>>

\* dedup(arr, true) with arr.length < 2: return
DedupShort ==
  /\ pc = "idle"
  /\ Length(arr) < 2
  /\ isDedupOrigin' = TRUE
  /\ ret' = Undefined
  /\ pc' = "done"
  /\ calls' = Append(calls, [flag |-> TRUE, input |-> arg0, output |-> arr])
  /\ UNCHANGED <<arr, d, arg0, heap, call>>

\* dedup(arr, true): the pairwise scan, from m = 0, d = 0
DedupScan ==
  /\ pc = "idle"
  /\ Length(arr) >= 2
  /\ isDedupOrigin' = TRUE
  /\ LET r == ScanOuter(arr, 0, 0)
     IN arr' = r.arr /\ d' = r.d
  /\ pc' = "scanned"
  /\ UNCHANGED <<ret, arg0, calls, heap, call>>

\* the compaction loop
DedupCompact ==
  /\ pc = "scanned"
  /\ arr' = Compact(arr)
  /\ pc' = "compacted"
  /\ UNCHANGED <<isDedupOrigin, d, ret, arg0, calls, heap, call>>

\* the truncation, and the return of no value
DedupTruncate ==
  /\ pc = "compacted"
  /\ arr' = Truncate(arr, d)
  /\ ret' = Undefined
  /\ pc' = "done"
  /\ calls' = Append(calls, [flag |-> TRUE, input |-> arg0, output |-> arr'])
  /\ UNCHANGED <<isDedupOrigin, d, arg0, heap, call>>

\* the caller applies dedup again to the result of the last call: to arr itself
\* after an in-place call, to the returned array after a copying call
DedupAgain ==
  /\ pc = "done"
  /\ Len(calls) < MaxCalls
  /\ arr' = calls[Len(calls)].output
  /\ arg0' = arr'
  /\ d' = 0
  /\ pc' = "idle"
  /\ UNCHANGED <<isDedupOrigin, ret, calls, heap, call>>

Next ==
  \/ DedupCopy
  \/ DedupShort
  \/ DedupScan
  \/ DedupCompact
  \/ DedupTruncate
  \/ DedupAgain

Spec == Init /\ [][Next]_vars

\* ---------------------------------------------------------- dedup: claims
HoleFree(a) == \A i \in DOMAIN a : a[i] # Hole

\* the assigned indices of a whose value no earlier assigned index holds, two
\* values being the same by === (strict) or as members of a Set (not strict)
FirstIdx(a, strict) ==
  {i \in DOMAIN a : HasIndex(a, i) /\
     \A j \in 0..(i - 1) :
        ~(HasIndex(a, j) /\
          IF strict THEN StrictEquals(a[j], a[i]) ELSE SameValueZero(a[j], a[i]))}

\* r holds exactly the first occurrences of a's assigned values, in order
IsFirstOccurrences(r, a, strict) ==
  LET F == FirstIdx(a, strict)
  IN /\ DOMAIN r = 0..(Cardinality(F) - 1)
     /\ \A i \in F : r[Cardinality({j \in F : j < i})] = a[i]

\* C1: dedup(arr, true) on a hole-free array of primitives returns no value and
\* leaves arr equal to its distinct values (compared by ===) in order of first
\* occurrence.
C1_InPlaceDedup ==
  (pc = "done" /\ isDedupOrigin /\ HoleFree(arg0))
    => (ret = Undefined /\ IsFirstOccurrences(arr, arg0, TRUE))

\* C2: dedup(arr) on a hole-free array of primitives returns an array holding
\* each distinct value of arr once, in order of first occurrence, and arr has
\* the same length and elements as before the call.
C2_CopyDedup ==
  (pc = "done" /\ ~isDedupOrigin /\ HoleFree(arg0))
    => (IsFirstOccurrences(ret, arg0, FALSE) /\ arr = arg0)

C2_Witness ==
  /\ pc = "done" /\ ~isDedupOrigin /\ HoleFree(arg0)
  /\ Length(arg0) = 4 /\ Length(ret) = 2
  /\ arg0[0] # arg0[1] /\ arg0[2] = arg0[0]

\* C3: dedup is idempotent in both modes: a second call in the same mode, on
\* the result of the first, yields what the first call yielded.
C3_Idempotent ==
  \A k \in 1..(Len(calls) - 1) :
    calls[k].flag = calls[k + 1].flag => calls[k + 1].output = calls[k].output

\* C4: dedup(arr, true) on an array with holes (of length 2 or more, so that
\* the length guard does not return at once) leaves arr without holes, holding
\* exactly the distinct assigned values of the original in order of first
\* occurrence.
C4_HolesCollapsed ==
  (pc = "done" /\ isDedupOrigin /\ ~HoleFree(arg0) /\ Length(arg0) >= 2)
    => (HoleFree(arr) /\ IsFirstOccurrences(arr, arg0, TRUE))

\* C13: in in-place dedup of a hole-free array of length L >= 2 with k distinct
\* values (by ===), when the scan has ended and compaction has not begun, each
\* distinct value is assigned at the index of its first occurrence and nowhere
\* else, every other index is a hole, the length is still L and d = L - k; so
\* the truncation leaves an array of length k.
C13_AfterScan ==
  LET F == FirstIdx(arg0, TRUE)
  IN /\ (pc = "scanned" /\ HoleFree(arg0)) =>
          /\ Length(arg0) >= 2
          /\ DOMAIN arr = DOMAIN arg0
          /\ \A i \in DOMAIN arr : arr[i] = IF i \in F THEN arg0[i] ELSE Hole
          /\ d = Length(arg0) - Cardinality(F)
     /\ (pc = "done" /\ isDedupOrigin /\ HoleFree(arg0) /\ Length(arg0) >= 2) =>
          Length(arr) = Cardinality(F)

C13_Witness ==
  /\ pc = "scanned" /\ HoleFree(arg0)
  /\ Length(arg0) = 5 /\ d = 3
  /\ arr[1] = Hole /\ arr[2] # Hole /\ arr[3] = Hole /\ arr[4] = Hole

\* the indices of a that hold a value
LiveIdx(a) == {i \in DOMAIN a : a[i] # Hole}

\* every value live in before sits, in after, at the index equal to the number
\* of live values before it
Packed(before, after) ==
  \A i \in LiveIdx(before) :
     LET r == Cardinality({j \in LiveIdx(before) : j < i})
     IN HasIndex(after, r) /\ after[r] = before[i]

\* C14: the compaction pass of in-place dedup packs the values the scan left
\* live into the leading indices: whatever the pattern of holes, when the pass
\* ends the k live values occupy indices 0..k-1 in their original relative order.
C14_CompactionPacks ==
  [][(pc = "scanned" /\ pc' = "compacted") => Packed(arr, arr')]_vars

\* ------------------------------------------- assignWithin and assignWithout
Prop(k, v, e) == [key |-> k, value |-> v, enumerable |-> e]

\* the object holding, in the order given, the keys f does not mark absent;
\* f[k] is "absent", "enum" or "hidden" (own and not enumerable)
ObjectOf(order, f, val) ==
  LET Present(k) == f[k] # "absent"
      ks == SelectSeq(order, Present)
  IN [i \in 1..Len(ks) |-> Prop(ks[i], val[ks[i]], f[ks[i]] = "enum")]

SeqsUpTo(S, k) == UNION {[1..j -> S] : j \in 0..k}

SourceValue == [a |-> Num(1), b |-> Num(2)] @@ ("@@s" :> Num(3))

TargetValue == [a |-> Num(7), b |-> Num(8)]

\* the source objects: the symbol is inserted first; 'a' and the symbol may be
\* absent or non-enumerable, 'b' is an enumerable own key, 'c' is never one
Sources ==
  {ObjectOf(<<"@@s", "a", "b">>, f, SourceValue) :
     f \in {g \in [{"a", "b", "@@s"} -> {"absent", "enum", "hidden"}] : g["b"] = "enum"}}

Targets ==
  {ObjectOf(<<"a", "b">>, f, TargetValue) : f \in [{"a", "b"} -> {"absent", "enum"}]}

TarArgs == {Ref(1), Ref(2), Null, Undefined}

SrcArgs == {Ref(2), Null, Undefined}

NonArrays ==
  {NotArray("undefined"), StringArg, NotArray("number"), NotArray("object")}

\* the shapes of a range element that assignWithin tells apart
WithinElems ==
  {Bare("a"), Bare("@@s"), Tuple(<<"a">>), Tuple(<<"a", "b">>), Tuple(<<"b", "a">>),
   Tuple(<<"b", "c">>), Tuple(<<"a", KNull>>), Tuple(<<"a", "b", Inc>>),
   Tuple(<<"@@s", "b", Num(9)>>)}

WithinRanges == {ArrayOf(xs) : xs \in SeqsUpTo(WithinElems, MaxRange)} \cup NonArrays

WithoutElems == {"a", "b", "c", "@@s"}

WithoutRanges == {ArrayOf(xs) : xs \in SeqsUpTo(WithoutElems, MaxRange)} \cup NonArrays

InitAssign ==
  /\ arr = EmptyArray
  /\ DedupIdle
  /\ \E t \in Targets, s \in Sources : heap = <<t, s>>
  /\ call = NoCall

Outcome(op, tarObj, srcObj, range, r) ==
  [op |-> op, tarObj |-> tarObj, srcObj |-> srcObj, range |-> range, pre |-> heap,
   reads |-> r.reads, thrown |-> r.thrown, result |-> r.result]

CallAssignWithin ==
  /\ call.op = "none"
  /\ \E tarObj \in TarArgs, srcObj \in SrcArgs, range \in WithinRanges :
       LET r == assignWithin(heap, tarObj, srcObj, range)
       IN /\ heap' = r.heap
          /\ call' = Outcome("assignWithin", tarObj, srcObj, range, r)
  /\ UNCHANGED dedupVars

CallAssignWithout ==
  /\ call.op = "none"
  /\ \E tarObj \in TarArgs, srcObj \in SrcArgs, range \in WithoutRanges :
       LET r == assignWithout(heap, tarObj, srcObj, range)
       IN /\ heap' = r.heap
          /\ call' = Outcome("assignWithout", tarObj, srcObj, range, r)
  /\ UNCHANGED dedupVars

NextAssign ==
  \/ CallAssignWithin
  \/ CallAssignWithout

SpecAssign == InitAssign /\ [][NextAssign]_vars

\* ---------------------------------- assignWithin, assignWithout: claims
\* every property key the calls of the model can name
AllKeys == {"a", "b", "c", "h", "@@s", "", "null", "undefined"}

Absent == <<"absent">>

\* an object as a function of the key: absent, or own with value and flag
FieldsOf(o) ==
  [k \in AllKeys |->
     IF HasOwn(o, k) THEN <<"own", OwnGet(o, k), IsEnumerable(o, k)>> ELSE Absent]

IsOwn(f) == f[1] = "own"

\* key k assigned v: a new field is enumerable, an old one keeps its flag
Assigned(fs, k, v) ==
  [fs EXCEPT ![k] = <<"own", v, IF IsOwn(fs[k]) THEN fs[k][3] ELSE TRUE>>]

\* the parts of a remap instruction, as the claim reads them
InstrSrc(e) == IF e.isArray /\ Len(e.v) = 0 THEN KUndefined ELSE e.v[1]
InstrTar(e) ==
  IF ~e.isArray THEN e.v[1] ELSE IF Len(e.v) >= 2 THEN e.v[2] ELSE KUndefined
InstrConv(e) == IF e.isArray /\ Len(e.v) >= 3 THEN e.v[3] ELSE Undefined

\* the instruction applies: source key enumerable own, target key given
Applies(sf, e) ==
  /\ IsOwn(sf[ToPropertyKey(InstrSrc(e))])
  /\ sf[ToPropertyKey(InstrSrc(e))][3]
  /\ InstrTar(e) \notin {KNull, KUndefined}

\* the value the instruction writes
Written(sf, e) ==
  LET v == sf[ToPropertyKey(InstrSrc(e))][2]
  IN IF InstrConv(e).t = "function" THEN Apply(InstrConv(e), v) ELSE v

\* the target's fields after the instructions, applied one by one in list
\* order; when target and source are one object each reads what the earlier
\* ones left
Remapped(tf, sf, same, items) ==
  LET F[j \in 0..Len(items)] ==
        IF j = 0 THEN tf
        ELSE LET cur == IF same THEN F[j - 1] ELSE sf
             IN IF Applies(cur, items[j])
                THEN Assigned(F[j - 1], ToPropertyKey(InstrTar(items[j])),
                              Written(cur, items[j]))
                ELSE F[j - 1]
  IN F[Len(items)]

\* the heap is as before the call, but for the object at reference r
OthersUnchanged(r) == \A i \in DOMAIN heap : i # r.n => heap[i] = call.pre[i]

Proper(op) ==
  /\ call.op = op
  /\ ~IsNullish(call.tarObj)
  /\ ~IsNullish(call.srcObj)
  /\ IsArray(call.range)

\* C5: with a non-null target, a present source and an array of instructions,
\* assignWithin returns the target, whose fields are those left by applying the
\* instructions one by one in list order (a bare key k as (k, k); skipped unless
\* the source key is an enumerable own key of the source and the target key is
\* not null/absent; the converter applied if it is a function), so that the last
\* applicable instruction naming a target key decides its value.
C5_AssignWithin ==
  Proper("assignWithin") =>
    LET items == call.range.items
        tf == FieldsOf(call.pre[call.tarObj.n])
        sf == FieldsOf(call.pre[call.srcObj.n])
        post == FieldsOf(heap[call.tarObj.n])
    IN /\ call.thrown = "none"
       /\ call.result = call.tarObj
       /\ OthersUnchanged(call.tarObj)
       /\ post = Remapped(tf, sf, call.tarObj = call.srcObj, items)
       /\ call.tarObj # call.srcObj =>
            \A k \in AllKeys :
              LET on == {j \in 1..Len(items) :
                           Applies(sf, items[j]) /\ ToPropertyKey(InstrTar(items[j])) = k}
              IN IF on = {} THEN post[k] = tf[k]
                 ELSE LET last == CHOOSE j \in on : \A i \in on : i <= j
                      IN IsOwn(post[k]) /\ post[k][2] = Written(sf, items[last])

C5_Witness ==
  /\ Proper("assignWithin")
  /\ call.tarObj = Ref(1) /\ call.srcObj = Ref(2)
  /\ call.range.items = <<Tuple(<<"a", "b", Inc>>), Tuple(<<"@@s", "b", Num(9)>>)>>
  /\ IsEnumerable(call.pre[2], "a")
  /\ OwnGet(call.pre[1], "b") = Num(8)
  /\ OwnGet(heap[1], "b") = Num(3)

\* C6: with a non-null target, a present source and an array of excluded keys,
\* assignWithout returns the target, in which every enumerable own key of the
\* source (string or symbol) that the array does not hold has the source's
\* value and every other field is as before the call; only the set of the
\* excluded keys matters.
C6_AssignWithout ==
  Proper("assignWithout") =>
    LET excluded == {call.range.items[j] : j \in 1..Len(call.range.items)}
        tf == FieldsOf(call.pre[call.tarObj.n])
        sf == FieldsOf(call.pre[call.srcObj.n])
        post == FieldsOf(heap[call.tarObj.n])
    IN /\ call.thrown = "none"
       /\ call.result = call.tarObj
       /\ OthersUnchanged(call.tarObj)
       /\ \A k \in AllKeys :
            IF IsOwn(sf[k]) /\ sf[k][3] /\ k \notin excluded
            THEN post[k] = Assigned(tf, k, sf[k][2])[k]
            ELSE post[k] = tf[k]

C6_Witness ==
  /\ Proper("assignWithout")
  /\ call.tarObj = Ref(1) /\ call.srcObj = Ref(2)
  /\ call.range.items = <<"b", "b">>
  /\ IsEnumerable(call.pre[2], "@@s") /\ HasOwn(call.pre[2], "a")
  /\ ~IsEnumerable(call.pre[2], "a")
  /\ OwnGet(heap[1], "@@s") = Num(3)
  /\ OwnGet(heap[1], "a") = Num(7) /\ OwnGet(heap[1], "b") = Num(8)

\* C7: with a null or undefined target, assignWithin and assignWithout throw a
\* TypeError whatever the source and the range are, before the source is read;
\* no object is modified.
C7_NullTargetThrows ==
  (call.op \in {"assignWithin", "assignWithout"} /\ IsNullish(call.tarObj))
    => (call.thrown = "TypeError" /\ call.reads = 0 /\ heap = call.pre)

C7_Witness ==
  /\ call.op = "assignWithout"
  /\ call.tarObj = Undefined /\ call.srcObj = Ref(2)
  /\ call.range = ArrayOf(<<"c">>)
  /\ IsEnumerable(heap[2], "a")
  /\ call.thrown = "TypeError"

\* C8: with a non-null target, assignWithin and assignWithout throw nothing and
\* return the target with every field unchanged when the source is null or
\* undefined or the range is not an array.
C8_NoOp ==
  (/\ call.op \in {"assignWithin", "assignWithout"}
   /\ ~IsNullish(call.tarObj)
   /\ (IsNullish(call.srcObj) \/ ~IsArray(call.range)))
    => (call.thrown = "none" /\ call.result = call.tarObj /\ heap = call.pre)

C8_Witness ==
  /\ call.op = "assignWithin"
  /\ call.tarObj = Ref(1) /\ call.srcObj = Ref(2)
  /\ call.range = StringArg
  /\ IsEnumerable(heap[2], "a") /\ ~HasOwn(heap[1], "a")
  /\ call.thrown = "none" /\ call.result = Ref(1)

ConvertValue == [a |-> Num(1), b |-> Num(2)] @@ ("@@s" :> Num(3)) @@ ("" :> Num(4))

\* the objects converted: 'b' is an enumerable own key, 'a' may be absent or
\* non-enumerable, the empty string and the symbol may be keys, 'c' never is
ConvertObjects ==
  {ObjectOf(<<"a", "@@s", "", "b">>, f, ConvertValue) :
     f \in {g \in [{"a", "b", "", "@@s"} -> {"absent", "enum", "hidden"}] :
              g["b"] = "enum" /\ g[""] # "hidden" /\ g["@@s"] # "hidden"}}

\* the shapes of an item that convert tells apart
ConvertElems ==
  {Bare("a"), Tuple(<<>>), Tuple(<<"a">>), Tuple(<<"a", Num(9)>>), Tuple(<<"a", Inc>>),
   Tuple(<<"b", Neg>>), Tuple(<<"", Num(9)>>), Tuple(<<"c", Num(9)>>),
   Tuple(<<KNull, Inc>>), Tuple(<<"@@s", Inc>>)}

ConvertItems == {ArrayOf(xs) : xs \in SeqsUpTo(ConvertElems, MaxRange)} \cup NonArrays

InitConvert ==
  /\ arr = EmptyArray
  /\ DedupIdle
  /\ \E o \in ConvertObjects : heap = <<o>>
  /\ call = NoCall

CallConvert ==
  /\ call.op = "none"
  /\ \E items \in ConvertItems :
       LET r == convert(heap, Ref(1), items)
       IN /\ heap' = r.heap
          /\ call' = Outcome("convert", Ref(1), Undefined, items, r)
  /\ UNCHANGED dedupVars

NextConvert == CallConvert

SpecConvert == InitConvert /\ [][NextConvert]_vars

\* ---------------------------------------------------------- convert: claims
\* the parts of a conversion instruction, as the claim reads them
PairKey(e) == IF Len(e.v) >= 1 THEN e.v[1] ELSE KUndefined
PairConv(e) == IF Len(e.v) >= 2 THEN e.v[2] ELSE Undefined

\* the instruction takes effect: a pair whose key is truthy and an own key
TakesEffect(fs, e) ==
  /\ e.isArray
  /\ PairKey(e) \notin {"", KNull, KUndefined}
  /\ IsOwn(fs[PairKey(e)])

\* the fields after the instructions, applied in list order, each function
\* receiving the value the earlier instructions left
Converted(fs, items) ==
  LET F[j \in 0..Len(items)] ==
        IF j = 0 THEN fs
        ELSE LET e == items[j]
                 cur == F[j - 1]
             IN IF TakesEffect(cur, e)
                THEN [cur EXCEPT ![PairKey(e)][2] =
                        IF PairConv(e).t = "function" THEN Apply(PairConv(e), @)
                        ELSE PairConv(e)]
                ELSE cur
  IN F[Len(items)]

\* C9: convert(mapping, instructions) returns the mapping after applying the
\* instructions in list order: one takes effect only if it is a pair whose key
\* is truthy and an own key (enumerable or not), the field becoming
\* converter(current value) for a function and the converter component itself
\* otherwise; the own keys are the same after the call as before.
C9_Convert ==
  (call.op = "convert" /\ IsArray(call.range)) =>
    /\ call.thrown = "none"
    /\ call.result = call.tarObj
    /\ OthersUnchanged(call.tarObj)
    /\ FieldsOf(heap[1]) = Converted(FieldsOf(call.pre[1]), call.range.items)
    /\ EntryKeys(heap[1]) = EntryKeys(call.pre[1])

C9_Witness ==
  /\ call.op = "convert"
  /\ call.range = ArrayOf(<<Tuple(<<"a", Num(9)>>), Tuple(<<"a", Inc>>)>>)
  /\ HasOwn(call.pre[1], "a") /\ ~IsEnumerable(call.pre[1], "a")
  /\ OwnGet(heap[1], "a") = Num(10)
  /\ ~IsEnumerable(heap[1], "a")

\* C10: convert raises no error whatever its instructions argument is: an
\* element that is no pair, a pair with a falsy or absent key, and an argument
\* that is absent or no sequence all leave the mapping unchanged and return it.
C10_ConvertNeverThrows ==
  call.op = "convert" =>
    /\ call.thrown = "none"
    /\ call.result = call.tarObj
    /\ (~IsArray(call.range) => heap = call.pre)

\* ---------------------------------------------------- deundefined, deempty
EmptyArr == [t |-> "array", n |-> 0]     \* the array []

\* what a key of the pruned object holds: nothing, or a value with its flag
NoField == [present |-> FALSE, value |-> Undefined, enumerable |-> FALSE]

\* the values: heap[2] is {}, heap[3] is {b: {}}, heap[4] has one own key,
\* which is not enumerable
PruneValues == {Num(1), Undefined, Null, EmptyArr, Ref(2), Ref(3), Ref(4)}

PruneFields ==
  {NoField} \cup
  {[present |-> TRUE, value |-> v, enumerable |-> e] : v \in PruneValues, e \in BOOLEAN}

\* the objects pruned, over the keys 'a', the symbol and 'b'
PruneObjects ==
  {LET Present(k) == f[k].present
       ks == SelectSeq(<<"a", "@@s", "b">>, Present)
   IN [i \in 1..Len(ks) |-> Prop(ks[i], f[ks[i]].value, f[ks[i]].enumerable)] :
     f \in [{"a", "b", "@@s"} -> PruneFields]}

InitPrune ==
  /\ arr = EmptyArray
  /\ DedupIdle
  /\ \E o \in PruneObjects :
       heap = <<o, <<>>, <<Prop("b", Ref(2), TRUE)>>, <<Prop("h", Num(1), FALSE)>>>>
  /\ call = NoCall

CallDeundefined ==
  /\ call.op = "none"
  /\ LET r == deundefined(heap, Ref(1))
     IN /\ heap' = r.heap
        /\ call' = Outcome("deundefined", Ref(1), Undefined, NotArray("undefined"), r)
  /\ UNCHANGED dedupVars

\* deundefined(obj) on the object a first call returned
CallDeundefinedAgain ==
  /\ call.op = "deundefined"
  /\ LET r == deundefined(heap, call.result)
     IN /\ heap' = r.heap
        /\ call' = Outcome("deundefined again", call.result, Undefined,
                           NotArray("undefined"), r)
  /\ UNCHANGED dedupVars

CallDeempty ==
  /\ call.op = "none"
  /\ LET r == deempty(heap, Ref(1))
     IN /\ heap' = r.heap
        /\ call' = Outcome("deempty", Ref(1), Undefined, NotArray("undefined"), r)
  /\ UNCHANGED dedupVars

\* deempty(obj) on the object a first call returned
CallDeemptyAgain ==
  /\ call.op = "deempty"
  /\ LET r == deempty(heap, call.result)
     IN /\ heap' = r.heap
        /\ call' = Outcome("deempty again", call.result, Undefined,
                           NotArray("undefined"), r)
  /\ UNCHANGED dedupVars

NextPrune ==
  \/ CallDeundefined
  \/ CallDeundefinedAgain
  \/ CallDeempty
  \/ CallDeemptyAgain

SpecPrune == InitPrune /\ [][NextPrune]_vars

\* -------------------------------------------- deundefined, deempty: claims
\* C11: deundefined(m) returns m, from which exactly the own keys whose value
\* is undefined are removed (string or symbol, enumerable or not); every other
\* own key is present with its value; a second call changes nothing.
C11_Deundefined ==
  /\ call.op = "deundefined" =>
       LET pre == FieldsOf(call.pre[1])
           post == FieldsOf(heap[1])
       IN /\ call.thrown = "none"
          /\ call.result = call.tarObj
          /\ OthersUnchanged(call.tarObj)
          /\ \A k \in AllKeys :
               IF IsOwn(pre[k]) /\ pre[k][2] = Undefined
               THEN post[k] = Absent
               ELSE post[k] = pre[k]
  /\ call.op = "deundefined again" => (call.result = call.tarObj /\ heap = call.pre)

C11_Witness ==
  /\ call.op = "deundefined"
  /\ HasOwn(call.pre[1], "a") /\ OwnGet(call.pre[1], "a") = Undefined
  /\ HasOwn(call.pre[1], "@@s") /\ OwnGet(call.pre[1], "@@s") = Undefined
  /\ ~IsEnumerable(call.pre[1], "@@s")
  /\ OwnGet(call.pre[1], "b") = Null
  /\ EntryKeys(heap[1]) = <<"b">>

\* C12: deempty(m) returns m, from which exactly the own keys whose value is a
\* plain mapping with zero own keys at the time of the call are removed; a
\* non-empty mapping, an array, undefined and primitives are kept, and a nested
\* mapping such as {b: {}} is neither removed nor modified; a second call
\* changes nothing.
C12_Deempty ==
  /\ call.op = "deempty" =>
       LET pre == FieldsOf(call.pre[1])
           post == FieldsOf(heap[1])
       IN /\ call.thrown = "none"
          /\ call.result = call.tarObj
          /\ OthersUnchanged(call.tarObj)
          /\ \A k \in AllKeys :
               IF /\ IsOwn(pre[k])
                  /\ pre[k][2].t = "object"
                  /\ Len(call.pre[pre[k][2].n]) = 0
               THEN post[k] = Absent
               ELSE post[k] = pre[k]
  /\ call.op = "deempty again" => (call.result = call.tarObj /\ heap = call.pre)

C12_Witness ==
  /\ call.op = "deempty"
  /\ OwnGet(call.pre[1], "a") = Ref(2) /\ ~IsEnumerable(call.pre[1], "a")
  /\ OwnGet(call.pre[1], "@@s") = Ref(4)
  /\ OwnGet(call.pre[1], "b") = Ref(3)
  /\ EntryKeys(heap[1]) = <<"@@s", "b">>
  /\ heap[3] = <<Prop("b", Ref(2), TRUE)>>

=============================================================================
